---- MODULE Spec2Model ----
(***************************************************************************)
(* Verification model of the two utility scripts of the repository:        *)
(*   src/generate_solar_system_config.py  (scale configuration generator)  *)
(*   src/create_space_level.py            (editor level-creation script)   *)
(*                                                                         *)
(* Python floats are modelled as exact rationals over arbitrary-precision  *)
(* naturals (TLC integers are 32 bit wide and the engine distances are     *)
(* not): every product and quotient of the code is computed exactly, and   *)
(* only formatting rounds.                                                 *)
(***************************************************************************)
EXTENDS Integers, Sequences, FiniteSets

(***************************************************************************)
(* Arbitrary-precision naturals: little-endian digit sequences in base     *)
(* 10^4 without high zeros; <<>> is zero.                                  *)
(***************************************************************************)
Base == 10^4

RECURSIVE BTrim(_)
BTrim(a) ==
    IF a = <<>> THEN a
    ELSE IF a[Len(a)] = 0 THEN BTrim(SubSeq(a, 1, Len(a) - 1)) ELSE a

RECURSIVE BFromInt(_)
BFromInt(n) == IF n = 0 THEN <<>> ELSE <<n % Base>> \o BFromInt(n \div Base)

RECURSIVE BAddC(_, _, _)
BAddC(a, b, c) ==
    IF a = <<>> /\ b = <<>> THEN (IF c = 0 THEN <<>> ELSE <<c>>)
    ELSE LET x == IF a = <<>> THEN 0 ELSE a[1]
             y == IF b = <<>> THEN 0 ELSE b[1]
             s == x + y + c
         IN  <<s % Base>> \o BAddC(IF a = <<>> THEN a ELSE Tail(a),
                                   IF b = <<>> THEN b ELSE Tail(b),
                                   s \div Base)

BAdd(a, b) == BAddC(a, b, 0)

RECURSIVE BMulSmallC(_, _, _)
BMulSmallC(a, k, c) ==
    IF a = <<>> THEN (IF c = 0 THEN <<>> ELSE <<c>>)
    ELSE LET s == a[1] * k + c
         IN  <<s % Base>> \o BMulSmallC(Tail(a), k, s \div Base)

BMulSmall(a, k) == IF k = 0 THEN <<>> ELSE BMulSmallC(a, k, 0)

BShift(a) == IF a = <<>> THEN a ELSE <<0>> \o a

RECURSIVE BMul(_, _)
BMul(a, b) ==
    IF a = <<>> \/ b = <<>> THEN <<>>
    ELSE BAdd(BMulSmall(a, b[1]), BShift(BMul(a, Tail(b))))

\* -1, 0, 1 as a < b, a = b, a > b
RECURSIVE BCmpAt(_, _, _)
BCmpAt(a, b, i) ==
    IF i = 0 THEN 0
    ELSE IF a[i] < b[i] THEN -1
    ELSE IF a[i] > b[i] THEN 1
    ELSE BCmpAt(a, b, i - 1)

BCmp(a, b) ==
    IF Len(a) < Len(b) THEN -1
    ELSE IF Len(a) > Len(b) THEN 1
    ELSE BCmpAt(a, b, Len(a))

\* a - b for a >= b
RECURSIVE BSubC(_, _, _)
BSubC(a, b, c) ==
    IF a = <<>> THEN <<>>
    ELSE LET y == IF b = <<>> THEN 0 ELSE b[1]
             s == a[1] - y - c
         IN  <<(s + Base) % Base>>
             \o BSubC(Tail(a), IF b = <<>> THEN b ELSE Tail(b), IF s < 0 THEN 1 ELSE 0)

BSub(a, b) == BTrim(BSubC(a, b, 0))

\* the largest q in lo..hi with q * b <= r (bisection)
RECURSIVE BQuotDigit(_, _, _, _)
BQuotTry(r, b, lo, hi, mid) ==
    IF BCmp(BMulSmall(b, mid), r) <= 0
    THEN BQuotDigit(r, b, mid, hi)
    ELSE BQuotDigit(r, b, lo, mid - 1)

BQuotDigit(r, b, lo, hi) ==
    IF lo = hi THEN lo ELSE BQuotTry(r, b, lo, hi, (lo + hi + 1) \div 2)

\* long division, digit i of a down to 1, remainder r: <<quotient, remainder>>
BDivCons(q, lo) == <<lo[1] \o <<q>>, lo[2]>>

RECURSIVE BDivAt(_, _, _, _)
BDivDigit(a, b, i, r1, q) == BDivCons(q, BDivAt(a, b, i - 1, BSub(r1, BMulSmall(b, q))))

BDivStep(a, b, i, r1) == BDivDigit(a, b, i, r1, BQuotDigit(r1, b, 0, Base - 1))

BDivAt(a, b, i, r) ==
    IF i = 0 THEN <<(<<>>), r>> ELSE BDivStep(a, b, i, BTrim(<<a[i]>> \o r))

BDivTrim(qr) == <<BTrim(qr[1]), qr[2]>>

BDivMod(a, b) == BDivTrim(BDivAt(a, b, Len(a), <<>>))

RECURSIVE BPow10(_)
BPow10(k) == IF k = 0 THEN <<1>> ELSE BMulSmall(BPow10(k - 1), 10)

BIsEven(a) == a = <<>> \/ a[1] % 2 = 0

(***************************************************************************)
(* Python floats as exact rationals: (-1)^neg * n / d with d > 0, not      *)
(* reduced; equality and order go through cross multiplication.            *)
(***************************************************************************)
QMake(neg, n, d) == [neg |-> neg /\ n # <<>>, n |-> n, d |-> d]

\* the decimal literal  i.f  with k fractional digits (f written with k digits);
\* trailing zeros of the literal do not change the float it denotes
RECURSIVE Dec(_, _, _, _)
Dec(neg, i, f, k) ==
    IF k > 0 /\ f % 10 = 0 THEN Dec(neg, i, f \div 10, k - 1)
    ELSE QMake(neg, BAdd(BMul(BFromInt(i), BPow10(k)), BFromInt(f)), BPow10(k))

QInt(i) == Dec(FALSE, i, 0, 0)

QIsZero(x) == x.n = <<>>

QMul(x, y) == QMake(x.neg # y.neg, BMul(x.n, y.n), BMul(x.d, y.d))

\* x / y for y # 0 (Python raises ZeroDivisionError on y = 0: see the callers)
QDiv(x, y) == QMul(x, [neg |-> y.neg, n |-> y.d, d |-> y.n])

QEq(x, y) == x.neg = y.neg /\ BMul(x.n, y.d) = BMul(y.n, x.d)

\* x > y
QGt(x, y) ==
    IF x.neg # y.neg THEN y.neg
    ELSE IF x.neg THEN BCmp(BMul(x.n, y.d), BMul(y.n, x.d)) < 0
    ELSE BCmp(BMul(x.n, y.d), BMul(y.n, x.d)) > 0

(***************************************************************************)
(* Format specification  :.kf : the value rounded (half to even) to k      *)
(* fractional digits; the text is the sign, the digits of m and the        *)
(* position k of the decimal point.                                        *)
(***************************************************************************)
FmtUp(c, q) == c > 0 \/ (c = 0 /\ ~BIsEven(q))

FmtRound(neg, qr, d, k) ==
    [ neg |-> neg,
      m |-> IF FmtUp(BCmp(BMulSmall(qr[2], 2), d), qr[1])
            THEN BAdd(qr[1], <<1>>) ELSE qr[1],
      k |-> k ]

Fmt(x, k) == FmtRound(x.neg, BDivMod(BMul(x.n, BPow10(k)), x.d), x.d, k)

(***************************************************************************)
(* generate_solar_system_config.py                                         *)
(***************************************************************************)
\* Real-world planetary data
PLANETS ==
  <<
    [ name |-> "Mercury",
      semi_major_axis_au |-> Dec(FALSE, 0, 38709893, 8),
      eccentricity |-> Dec(FALSE, 0, 20563069, 8),
      orbital_period_days |-> Dec(FALSE, 87, 969, 3),
      inclination_deg |-> Dec(FALSE, 7, 487, 5),
      longitude_ascending_node_deg |-> Dec(FALSE, 48, 33167, 5),
      argument_periapsis_deg |-> Dec(FALSE, 77, 45645, 5),
      mean_anomaly_epoch_deg |-> Dec(FALSE, 252, 25084, 5),
      diameter_km |-> Dec(FALSE, 4879, 4, 1),
      mass_earth_masses |-> Dec(FALSE, 0, 553, 4),
      rotation_period_days |-> Dec(FALSE, 58, 646, 3),
      has_moons |-> FALSE ],
    [ name |-> "Venus",
      semi_major_axis_au |-> Dec(FALSE, 0, 72333199, 8),
      eccentricity |-> Dec(FALSE, 0, 677323, 8),
      orbital_period_days |-> Dec(FALSE, 224, 701, 3),
      inclination_deg |-> Dec(FALSE, 3, 39471, 5),
      longitude_ascending_node_deg |-> Dec(FALSE, 76, 68069, 5),
      argument_periapsis_deg |-> Dec(FALSE, 131, 53298, 5),
      mean_anomaly_epoch_deg |-> Dec(FALSE, 181, 97973, 5),
      diameter_km |-> Dec(FALSE, 12103, 6, 1),
      mass_earth_masses |-> Dec(FALSE, 0, 815, 3),
      rotation_period_days |-> Dec(FALSE, 243, 18, 3),
      has_moons |-> FALSE ],
    [ name |-> "Earth",
      semi_major_axis_au |-> Dec(FALSE, 1, 11, 8),
      eccentricity |-> Dec(FALSE, 0, 1671022, 8),
      orbital_period_days |-> Dec(FALSE, 365, 256, 3),
      inclination_deg |-> Dec(FALSE, 0, 5, 5),
      longitude_ascending_node_deg |-> Dec(TRUE, 11, 26064, 5),
      argument_periapsis_deg |-> Dec(FALSE, 102, 94719, 5),
      mean_anomaly_epoch_deg |-> Dec(FALSE, 100, 46435, 5),
      diameter_km |-> Dec(FALSE, 12742, 0, 1),
      mass_earth_masses |-> Dec(FALSE, 1, 0, 1),
      rotation_period_days |-> Dec(FALSE, 1, 0, 1),
      has_moons |-> TRUE ],
    [ name |-> "Mars",
      semi_major_axis_au |-> Dec(FALSE, 1, 52366231, 8),
      eccentricity |-> Dec(FALSE, 0, 9341233, 8),
      orbital_period_days |-> Dec(FALSE, 686, 980, 3),
      inclination_deg |-> Dec(FALSE, 1, 85061, 5),
      longitude_ascending_node_deg |-> Dec(FALSE, 49, 57854, 5),
      argument_periapsis_deg |-> Dec(FALSE, 336, 4084, 5),
      mean_anomaly_epoch_deg |-> Dec(FALSE, 355, 45332, 5),
      diameter_km |-> Dec(FALSE, 6779, 0, 1),
      mass_earth_masses |-> Dec(FALSE, 0, 107, 3),
      rotation_period_days |-> Dec(FALSE, 1, 26, 3),
      has_moons |-> TRUE ],
    [ name |-> "Jupiter",
      semi_major_axis_au |-> Dec(FALSE, 5, 20336301, 8),
      eccentricity |-> Dec(FALSE, 0, 4839266, 8),
      orbital_period_days |-> Dec(FALSE, 4332, 589, 3),
      inclination_deg |-> Dec(FALSE, 1, 30530, 5),
      longitude_ascending_node_deg |-> Dec(FALSE, 100, 55615, 5),
      argument_periapsis_deg |-> Dec(FALSE, 14, 75385, 5),
      mean_anomaly_epoch_deg |-> Dec(FALSE, 34, 40438, 5),
      diameter_km |-> Dec(FALSE, 139820, 0, 1),
      mass_earth_masses |-> Dec(FALSE, 317, 8, 1),
      rotation_period_days |-> Dec(FALSE, 0, 414, 3),
      has_moons |-> TRUE ],
    [ name |-> "Saturn",
      semi_major_axis_au |-> Dec(FALSE, 9, 53707032, 8),
      eccentricity |-> Dec(FALSE, 0, 5415060, 8),
      orbital_period_days |-> Dec(FALSE, 10759, 22, 2),
      inclination_deg |-> Dec(FALSE, 2, 48446, 5),
      longitude_ascending_node_deg |-> Dec(FALSE, 113, 71504, 5),
      argument_periapsis_deg |-> Dec(FALSE, 92, 43194, 5),
      mean_anomaly_epoch_deg |-> Dec(FALSE, 49, 94432, 5),
      diameter_km |-> Dec(FALSE, 116460, 0, 1),
      mass_earth_masses |-> Dec(FALSE, 95, 2, 1),
      rotation_period_days |-> Dec(FALSE, 0, 444, 3),
      has_moons |-> TRUE ],
    [ name |-> "Uranus",
      semi_major_axis_au |-> Dec(FALSE, 19, 19126393, 8),
      eccentricity |-> Dec(FALSE, 0, 4716771, 8),
      orbital_period_days |-> Dec(FALSE, 30688, 5, 1),
      inclination_deg |-> Dec(FALSE, 0, 76986, 5),
      longitude_ascending_node_deg |-> Dec(FALSE, 74, 22988, 5),
      argument_periapsis_deg |-> Dec(FALSE, 170, 96424, 5),
      mean_anomaly_epoch_deg |-> Dec(FALSE, 313, 23218, 5),
      diameter_km |-> Dec(FALSE, 50724, 0, 1),
      mass_earth_masses |-> Dec(FALSE, 14, 5, 1),
      rotation_period_days |-> Dec(FALSE, 0, 718, 3),
      has_moons |-> TRUE ],
    [ name |-> "Neptune",
      semi_major_axis_au |-> Dec(FALSE, 30, 6896348, 8),
      eccentricity |-> Dec(FALSE, 0, 858587, 8),
      orbital_period_days |-> Dec(FALSE, 60182, 0, 1),
      inclination_deg |-> Dec(FALSE, 1, 76917, 5),
      longitude_ascending_node_deg |-> Dec(FALSE, 131, 72169, 5),
      argument_periapsis_deg |-> Dec(FALSE, 44, 97135, 5),
      mean_anomaly_epoch_deg |-> Dec(FALSE, 304, 88003, 5),
      diameter_km |-> Dec(FALSE, 49244, 0, 1),
      mass_earth_masses |-> Dec(FALSE, 17, 1, 1),
      rotation_period_days |-> Dec(FALSE, 0, 671, 3),
      has_moons |-> TRUE ]
  >>

\* Constants
AU_TO_KM == Dec(FALSE, 149597870, 7, 1)
CM_PER_KM == Dec(FALSE, 100000, 0, 1)

\* the defaults of the keyword parameters, which are also the literals main passes
DEFAULT_DISTANCE_SCALE == Dec(FALSE, 0, 1, 5)
DEFAULT_SIZE_SCALE == Dec(FALSE, 50, 0, 1)
DEFAULT_TIME_MULTIPLIER == Dec(FALSE, 10000, 0, 1)

\* the arguments the functions are called with
DistanceScales == {DEFAULT_DISTANCE_SCALE, Dec(FALSE, 0, 1, 4), QInt(0)}
SizeScales == {DEFAULT_SIZE_SCALE, Dec(FALSE, 100, 0, 1)}
\* 365.256 and 8766.144 bring Earth's compressed period to 24 hours and to 1 hour
TimeMultipliers ==
    {DEFAULT_TIME_MULTIPLIER, Dec(FALSE, 365, 256, 3), Dec(FALSE, 8766, 144, 3), QInt(0)}

VARIABLES
    catalog,     \* the module-level list PLANETS
    results,     \* the list last returned by calculate_scaled_values (<<>>: none yet)
    report,      \* the "Game Orbit" line it printed for each planet
    last_args,   \* <<distance_scale, size_scale, time_multiplier>> of that call
    csv,         \* the CSV block last printed by generate_blueprint_csv
    csv_args,    \* <<distance_scale, size_scale>> of that call
    camera,      \* the entries last printed by calculate_camera_distances
    file,        \* solar_system_config.json on disk
    io,          \* open/write attempts on the file made by the current invocation
    err,         \* the exception that left the last call ("none": it returned)
    stdout,      \* the blocks printed by the current top-level invocation
    pc           \* "idle", or the position of a running main()

gen_vars == <<catalog, results, report, last_args, csv, csv_args, camera, file, io,
              err, stdout, pc>>

\* scaled_record with the halving of the diameter (line 147) left out
scaled_record_diameter(planet, distance_scale, size_scale, time_multiplier) ==
    LET distance_km == QMul(planet.semi_major_axis_au, AU_TO_KM)
        distance_uu == QMul(QMul(distance_km, CM_PER_KM), distance_scale)
        radius_uu == QMul(QMul(planet.diameter_km, CM_PER_KM), size_scale)
        orbit_seconds == QMul(planet.orbital_period_days, QInt(86400))
        scaled_orbit_seconds == QDiv(orbit_seconds, time_multiplier)
        scaled_orbit_minutes == QDiv(scaled_orbit_seconds, QInt(60))
        scaled_orbit_hours == QDiv(scaled_orbit_minutes, QInt(60))
    IN  [ name |-> planet.name,
          distance_au |-> planet.semi_major_axis_au,
          distance_km |-> distance_km,
          distance_uu |-> distance_uu,
          distance_game_km |-> QDiv(distance_uu, CM_PER_KM),
          radius_real_km |-> planet.diameter_km,
          radius_uu |-> radius_uu,
          radius_game_km |-> QDiv(radius_uu, CM_PER_KM),
          orbit_real_days |-> planet.orbital_period_days,
          orbit_scaled_seconds |-> scaled_orbit_seconds,
          orbit_scaled_minutes |-> scaled_orbit_minutes,
          orbit_scaled_hours |-> scaled_orbit_hours ]

\* lines 143-170: the record of one planet
scaled_record(planet, distance_scale, size_scale, time_multiplier) ==
    LET distance_km == QMul(planet.semi_major_axis_au, AU_TO_KM)
        distance_uu == QMul(QMul(distance_km, CM_PER_KM), distance_scale)
        radius_km == QDiv(planet.diameter_km, QInt(2))
        radius_uu == QMul(QMul(radius_km, CM_PER_KM), size_scale)
        real_orbit_days == planet.orbital_period_days
        real_orbit_seconds == QMul(real_orbit_days, QInt(86400))
        scaled_orbit_seconds == QDiv(real_orbit_seconds, time_multiplier)
        scaled_orbit_minutes == QDiv(scaled_orbit_seconds, QInt(60))
        scaled_orbit_hours == QDiv(scaled_orbit_minutes, QInt(60))
    IN  [ name |-> planet.name,
          distance_au |-> planet.semi_major_axis_au,
          distance_km |-> distance_km,
          distance_uu |-> distance_uu,
          distance_game_km |-> QDiv(distance_uu, CM_PER_KM),
          radius_real_km |-> radius_km,
          radius_uu |-> radius_uu,
          radius_game_km |-> QDiv(radius_uu, CM_PER_KM),
          orbit_real_days |-> real_orbit_days,
          orbit_scaled_seconds |-> scaled_orbit_seconds,
          orbit_scaled_minutes |-> scaled_orbit_minutes,
          orbit_scaled_hours |-> scaled_orbit_hours ]

\* game_orbit_line with the 24-hour comparison of line 182 made inclusive
game_orbit_line_inclusive(result) ==
    IF ~QGt(QInt(24), result.orbit_scaled_hours)
    THEN [ name |-> result.name, format |-> "days+hours",
           first |-> Fmt(QDiv(result.orbit_scaled_hours, QInt(24)), 1),
           second |-> Fmt(result.orbit_scaled_hours, 1) ]
    ELSE IF QGt(result.orbit_scaled_hours, QInt(1))
    THEN [ name |-> result.name, format |-> "hours+minutes",
           first |-> Fmt(result.orbit_scaled_hours, 1),
           second |-> Fmt(result.orbit_scaled_minutes, 0) ]
    ELSE [ name |-> result.name, format |-> "minutes+seconds",
           first |-> Fmt(result.orbit_scaled_minutes, 1),
           second |-> Fmt(result.orbit_scaled_seconds, 0) ]

\* lines 182-187: the unit of the "Game Orbit" line and its two printed numbers
game_orbit_line(result) ==
    IF QGt(result.orbit_scaled_hours, QInt(24))
    THEN [ name |-> result.name, format |-> "days+hours",
           first |-> Fmt(QDiv(result.orbit_scaled_hours, QInt(24)), 1),
           second |-> Fmt(result.orbit_scaled_hours, 1) ]
    ELSE IF QGt(result.orbit_scaled_hours, QInt(1))
    THEN [ name |-> result.name, format |-> "hours+minutes",
           first |-> Fmt(result.orbit_scaled_hours, 1),
           second |-> Fmt(result.orbit_scaled_minutes, 0) ]
    ELSE [ name |-> result.name, format |-> "minutes+seconds",
           first |-> Fmt(result.orbit_scaled_minutes, 1),
           second |-> Fmt(result.orbit_scaled_seconds, 0) ]

\* lines 139-172, 190: the list that is returned
scaled_values(planets, distance_scale, size_scale, time_multiplier) ==
    [i \in 1..Len(planets) |->
        scaled_record(planets[i], distance_scale, size_scale, time_multiplier)]

\* lines 174-188: what is printed for each planet
orbit_report(res) == [i \in 1..Len(res) |-> game_orbit_line(res[i])]

\* The outputs for the catalog as written and the arguments above, computed once;
\* any other catalog or argument is computed on the spot.
scaled_values_cache ==
    [ds \in DistanceScales |-> [ss \in SizeScales |-> [tm \in TimeMultipliers |->
        IF QIsZero(ds) \/ QIsZero(tm) THEN <<>> ELSE scaled_values(PLANETS, ds, ss, tm)]]]

InCache(planets, distance_scale, size_scale, time_multiplier) ==
    /\ planets = PLANETS
    /\ distance_scale \in DistanceScales
    /\ size_scale \in SizeScales
    /\ time_multiplier \in TimeMultipliers

scaled_values_of(planets, distance_scale, size_scale, time_multiplier) ==
    IF InCache(planets, distance_scale, size_scale, time_multiplier)
    THEN scaled_values_cache[distance_scale][size_scale][time_multiplier]
    ELSE scaled_values(planets, distance_scale, size_scale, time_multiplier)

orbit_report_cache ==
    [ds \in DistanceScales |-> [ss \in SizeScales |-> [tm \in TimeMultipliers |->
        orbit_report(scaled_values_cache[ds][ss][tm])]]]

orbit_report_of(planets, distance_scale, size_scale, time_multiplier) ==
    IF InCache(planets, distance_scale, size_scale, time_multiplier)
    THEN orbit_report_cache[distance_scale][size_scale][time_multiplier]
    ELSE orbit_report(scaled_values(planets, distance_scale, size_scale, time_multiplier))

\* lines 130-190.  int(1/distance_scale) of the header (line 134) and the division
\* by time_multiplier of the first planet (line 153) raise ZeroDivisionError on a
\* zero argument, before any record is appended or any planet is printed.
calculate_scaled_values(distance_scale, size_scale, time_multiplier, console) ==
    /\ io' = <<>>
    /\ UNCHANGED <<catalog, csv, csv_args, camera, file>>
    /\ IF QIsZero(distance_scale) \/ (QIsZero(time_multiplier) /\ catalog # <<>>)
       THEN /\ err' = "ZeroDivisionError"
            /\ stdout' = console
            /\ UNCHANGED <<results, report, last_args>>
       ELSE /\ err' = "none"
            /\ results' = scaled_values_of(catalog, distance_scale, size_scale,
                                           time_multiplier)
            /\ report' = orbit_report_of(catalog, distance_scale, size_scale,
                                          time_multiplier)
            /\ last_args' = <<distance_scale, size_scale, time_multiplier>>
            /\ stdout' = Append(console, "scale")

\* line 198
csv_header ==
    << "PlanetName", "SemiMajorAxisUU", "Eccentricity", "OrbitalPeriodDays",
       "InclinationDeg", "LongAscNodeDeg", "ArgPeriapsisDeg", "MeanAnomalyDeg",
       "DiameterKm", "MassEarthMasses", "RotationPeriodDays", "HasMoons" >>

\* csv_row with the scale of its caller replaced by the default of line 192
csv_row_default_scale(planet, distance_scale) ==
    LET distance_km == QMul(planet.semi_major_axis_au, AU_TO_KM)
        distance_uu == QMul(QMul(distance_km, CM_PER_KM), DEFAULT_DISTANCE_SCALE)
    IN  << planet.name, Fmt(distance_uu, 2), Fmt(planet.eccentricity, 8),
           Fmt(planet.orbital_period_days, 3), Fmt(planet.inclination_deg, 5),
           Fmt(planet.longitude_ascending_node_deg, 5),
           Fmt(planet.argument_periapsis_deg, 5),
           Fmt(planet.mean_anomaly_epoch_deg, 5), Fmt(planet.diameter_km, 1),
           Fmt(planet.mass_earth_masses, 3), Fmt(planet.rotation_period_days, 3),
           IF planet.has_moons THEN "TRUE" ELSE "FALSE" >>

\* lines 201-210: one row
csv_row(planet, distance_scale) ==
    LET distance_km == QMul(planet.semi_major_axis_au, AU_TO_KM)
        distance_uu == QMul(QMul(distance_km, CM_PER_KM), distance_scale)
    IN  << planet.name, Fmt(distance_uu, 2), Fmt(planet.eccentricity, 8),
           Fmt(planet.orbital_period_days, 3), Fmt(planet.inclination_deg, 5),
           Fmt(planet.longitude_ascending_node_deg, 5),
           Fmt(planet.argument_periapsis_deg, 5),
           Fmt(planet.mean_anomaly_epoch_deg, 5), Fmt(planet.diameter_km, 1),
           Fmt(planet.mass_earth_masses, 3), Fmt(planet.rotation_period_days, 3),
           IF planet.has_moons THEN "TRUE" ELSE "FALSE" >>

\* lines 198-210: the block that is printed
csv_block(planets, distance_scale) ==
    [ header |-> csv_header,
      rows |-> [i \in 1..Len(planets) |-> csv_row(planets[i], distance_scale)] ]

csv_block_cache == [ds \in DistanceScales |-> csv_block(PLANETS, ds)]

csv_block_of(planets, distance_scale) ==
    IF planets = PLANETS /\ distance_scale \in DistanceScales
    THEN csv_block_cache[distance_scale]
    ELSE csv_block(planets, distance_scale)

\* generate_blueprint_csv converting the catalog in place: each entry's
\* semi_major_axis_au is overwritten with the scaled distance
generate_blueprint_csv_in_place(distance_scale, size_scale, console) ==
    /\ csv' = csv_block_of(catalog, distance_scale)
    /\ csv_args' = <<distance_scale, size_scale>>
    /\ catalog' = [i \in 1..Len(catalog) |->
                      [catalog[i] EXCEPT !.semi_major_axis_au =
                          QMul(QMul(QMul(@, AU_TO_KM), CM_PER_KM), distance_scale)]]
    /\ err' = "none"
    /\ io' = <<>>
    /\ stdout' = Append(console, "csv")
    /\ UNCHANGED <<results, report, last_args, camera, file>>

\* lines 192-210 (size_scale is accepted and not used)
generate_blueprint_csv(distance_scale, size_scale, console) ==
    /\ csv' = csv_block_of(catalog, distance_scale)
    /\ csv_args' = <<distance_scale, size_scale>>
    /\ err' = "none"
    /\ io' = <<>>
    /\ stdout' = Append(console, "csv")
    /\ UNCHANGED <<catalog, results, report, last_args, camera, file>>

\* lines 218-232: one entry; the two scales are locals of the function
camera_entry(planet) ==
    LET distance_scale == Dec(FALSE, 0, 1, 5)
        size_scale == Dec(FALSE, 50, 0, 1)
        radius_km == QDiv(planet.diameter_km, QInt(2))
        radius_uu == QMul(QMul(radius_km, CM_PER_KM), size_scale)
        min_distance == QMul(radius_uu, QInt(3))
        max_distance == QMul(radius_uu, QInt(5))
    IN  [ name |-> planet.name,
          radius_uu |-> radius_uu,
          min_distance |-> min_distance,
          max_distance |-> max_distance,
          printed |-> << Fmt(radius_uu, 0),
                         Fmt(min_distance, 0), Fmt(QDiv(min_distance, CM_PER_KM), 0),
                         Fmt(max_distance, 0), Fmt(QDiv(max_distance, CM_PER_KM), 0) >> ]

\* lines 221-233: the entries that are printed
camera_block(planets) == [i \in 1..Len(planets) |-> camera_entry(planets[i])]

camera_block_cache == camera_block(PLANETS)

camera_block_of(planets) ==
    IF planets = PLANETS THEN camera_block_cache ELSE camera_block(planets)

\* lines 212-233
calculate_camera_distances(console) ==
    /\ camera' = camera_block_of(catalog)
    /\ err' = "none"
    /\ io' = <<>>
    /\ stdout' = Append(console, "camera")
    /\ UNCHANGED <<catalog, results, report, last_args, csv, csv_args, file>>

(***************************************************************************)
(* json.dump / json.load.  A float is written as its shortest decimal that *)
(* reads back to the same value (repr): the digits m without trailing      *)
(* zeros and the position e of the decimal point; True/False are written   *)
(* as the names true/false.                                                *)
(***************************************************************************)
RECURSIVE JsonNumAt(_, _)
JsonNumTry(x, e, qr) ==
    IF qr[2] = <<>> \/ e >= 17
    THEN [neg |-> x.neg, m |-> qr[1], e |-> e]
    ELSE JsonNumAt(x, e + 1)

JsonNumAt(x, e) == JsonNumTry(x, e, BDivMod(BMul(x.n, BPow10(e)), x.d))

json_dump_float(x) == JsonNumAt(x, 0)

json_load_float(t) == QMake(t.neg, t.m, BPow10(t.e))

json_dump_bool(b) == IF b THEN "true" ELSE "false"

json_load_bool(t) == t = "true"

json_dump_planet(planet) ==
    [ name |-> planet.name,
      semi_major_axis_au |-> json_dump_float(planet.semi_major_axis_au),
      eccentricity |-> json_dump_float(planet.eccentricity),
      orbital_period_days |-> json_dump_float(planet.orbital_period_days),
      inclination_deg |-> json_dump_float(planet.inclination_deg),
      longitude_ascending_node_deg |-> json_dump_float(planet.longitude_ascending_node_deg),
      argument_periapsis_deg |-> json_dump_float(planet.argument_periapsis_deg),
      mean_anomaly_epoch_deg |-> json_dump_float(planet.mean_anomaly_epoch_deg),
      diameter_km |-> json_dump_float(planet.diameter_km),
      mass_earth_masses |-> json_dump_float(planet.mass_earth_masses),
      rotation_period_days |-> json_dump_float(planet.rotation_period_days),
      has_moons |-> json_dump_bool(planet.has_moons) ]

json_load_planet(t) ==
    [ name |-> t.name,
      semi_major_axis_au |-> json_load_float(t.semi_major_axis_au),
      eccentricity |-> json_load_float(t.eccentricity),
      orbital_period_days |-> json_load_float(t.orbital_period_days),
      inclination_deg |-> json_load_float(t.inclination_deg),
      longitude_ascending_node_deg |-> json_load_float(t.longitude_ascending_node_deg),
      argument_periapsis_deg |-> json_load_float(t.argument_periapsis_deg),
      mean_anomaly_epoch_deg |-> json_load_float(t.mean_anomaly_epoch_deg),
      diameter_km |-> json_load_float(t.diameter_km),
      mass_earth_masses |-> json_load_float(t.mass_earth_masses),
      rotation_period_days |-> json_load_float(t.rotation_period_days),
      has_moons |-> json_load_bool(t.has_moons) ]

\* lines 237-251: the dict that is exported
config(planets) ==
    [ version |-> "1.0",
      date_created |-> "2026-01-08",
      scale_factors |->
          [ distance_scale |-> Dec(FALSE, 0, 1, 5),
            planet_size_scale |-> Dec(FALSE, 50, 0, 1),
            default_time_multiplier |-> Dec(FALSE, 10000, 0, 1) ],
      constants |->
          [ au_to_km |-> AU_TO_KM,
            cm_per_km |-> CM_PER_KM,
            sun_diameter_km |-> Dec(FALSE, 1392700, 0, 1) ],
      planets |-> planets ]

json_dump(c) ==
    [ version |-> c.version,
      date_created |-> c.date_created,
      scale_factors |->
          [ distance_scale |-> json_dump_float(c.scale_factors.distance_scale),
            planet_size_scale |-> json_dump_float(c.scale_factors.planet_size_scale),
            default_time_multiplier |->
                json_dump_float(c.scale_factors.default_time_multiplier) ],
      constants |->
          [ au_to_km |-> json_dump_float(c.constants.au_to_km),
            cm_per_km |-> json_dump_float(c.constants.cm_per_km),
            sun_diameter_km |-> json_dump_float(c.constants.sun_diameter_km) ],
      planets |-> [i \in 1..Len(c.planets) |-> json_dump_planet(c.planets[i])] ]

json_load(t) ==
    [ version |-> t.version,
      date_created |-> t.date_created,
      scale_factors |->
          [ distance_scale |-> json_load_float(t.scale_factors.distance_scale),
            planet_size_scale |-> json_load_float(t.scale_factors.planet_size_scale),
            default_time_multiplier |->
                json_load_float(t.scale_factors.default_time_multiplier) ],
      constants |->
          [ au_to_km |-> json_load_float(t.constants.au_to_km),
            cm_per_km |-> json_load_float(t.constants.cm_per_km),
            sun_diameter_km |-> json_load_float(t.constants.sun_diameter_km) ],
      planets |-> [i \in 1..Len(t.planets) |-> json_load_planet(t.planets[i])] ]

\* lines 253-254: the text json.dump writes
exported_text(planets) == json_dump(config(planets))

exported_text_cache == exported_text(PLANETS)

exported_text_of(planets) ==
    IF planets = PLANETS THEN exported_text_cache ELSE exported_text(planets)

\* what open(filename, 'w') and the write can do
IoOutcomes == {"ok", "open_failed", "write_failed"}

\* export_json_config with the file written inside a try block whose handler
\* drops the OSError, so that line 256 is printed in every case
export_json_config_swallowed(console) ==
    /\ \E outcome \in IoOutcomes :
          /\ io' = <<outcome>>
          /\ file' = CASE outcome = "ok" ->
                            [state |-> "complete", text |-> <<exported_text_of(catalog)>>]
                       [] outcome = "open_failed" -> file
                       [] outcome = "write_failed" -> [state |-> "partial", text |-> <<>>]
          /\ err' = "none"
          /\ stdout' = Append(console, "export_ok")
    /\ UNCHANGED <<catalog, results, report, last_args, csv, csv_args, camera>>

\* lines 235-256.  open(filename, 'w') raises OSError and leaves the file as it was
\* (no permission), or truncates it; the write then succeeds, or raises OSError
\* (disk full) and leaves an incomplete file.  Nothing catches the exception.
export_json_config(console) ==
    /\ \E outcome \in IoOutcomes :
          /\ io' = <<outcome>>
          /\ file' = CASE outcome = "ok" ->
                            [state |-> "complete", text |-> <<exported_text_of(catalog)>>]
                       [] outcome = "open_failed" -> file
                       [] outcome = "write_failed" -> [state |-> "partial", text |-> <<>>]
          /\ err' = IF outcome = "ok" THEN "none" ELSE "OSError"
          /\ stdout' = IF outcome = "ok" THEN Append(console, "export_ok") ELSE console
    /\ UNCHANGED <<catalog, results, report, last_args, csv, csv_args, camera>>

(***************************************************************************)
(* create_space_level.py: the state of the editor project and of one run   *)
(* of the script.                                                          *)
(***************************************************************************)
VARIABLES
    dir_exists,        \* /Game/Maps exists in the project
    level,             \* /Game/Maps/SpaceLevel: "absent", "old" (there before the
                       \* run) or "new" (created by this run)
    saved,             \* save_asset wrote the new level
    loaded,            \* load_map opened it
    existed,           \* what does_asset_exist answered
    overwrite_answer,  \* the answer to the "Level Exists" dialog ("none": not shown)
    calls,             \* the editor API calls made so far, in order
    ret,               \* the value create_space_level returned ("none": not yet)
    warned,            \* __main__ logged "Failed to create level. ..."
    lpc                \* the position in the script

level_vars == <<dir_exists, level, saved, loaded, existed, overwrite_answer, calls,
                ret, warned, lpc>>

vars == <<gen_vars, level_vars>>

(***************************************************************************)
(* A Python session on generate_solar_system_config: the public functions  *)
(* called in any order with any arguments, and main().  One call runs at a *)
(* time; each starts with an empty console.                                *)
(***************************************************************************)
NotRunning == pc \in {"idle", "done", "raised"}

call_calculate_scaled_values ==
    /\ NotRunning
    /\ \E ds \in DistanceScales, ss \in SizeScales, tm \in TimeMultipliers :
          calculate_scaled_values(ds, ss, tm, <<>>)
    /\ pc' = "idle"
    /\ UNCHANGED level_vars

call_generate_blueprint_csv ==
    /\ NotRunning
    /\ \E ds \in DistanceScales, ss \in SizeScales : generate_blueprint_csv(ds, ss, <<>>)
    /\ pc' = "idle"
    /\ UNCHANGED level_vars

call_calculate_camera_distances ==
    /\ NotRunning
    /\ calculate_camera_distances(<<>>)
    /\ pc' = "idle"
    /\ UNCHANGED level_vars

call_export_json_config ==
    /\ NotRunning
    /\ export_json_config(<<>>)
    /\ pc' = "idle"
    /\ UNCHANGED level_vars

\* lines 258-262: main() is entered and prints its title
main_title ==
    /\ NotRunning
    /\ pc' = "calc"
    /\ stdout' = <<"title">>
    /\ err' = "none"
    /\ io' = <<>>
    /\ UNCHANGED <<catalog, results, report, last_args, csv, csv_args, camera, file>>
    /\ UNCHANGED level_vars

\* lines 265-269: the three literals passed are the defaults
main_calculate_scaled_values ==
    /\ pc = "calc"
    /\ \E distance_scale \in {DEFAULT_DISTANCE_SCALE},
          size_scale \in {DEFAULT_SIZE_SCALE},
          time_multiplier \in {DEFAULT_TIME_MULTIPLIER} :
          calculate_scaled_values(distance_scale, size_scale, time_multiplier, stdout)
    /\ pc' = IF err' = "none" THEN "csv" ELSE "raised"
    /\ UNCHANGED level_vars

\* main() with line 275 moved up to line 272: the camera block is printed where
\* the CSV block belongs
main_generate_blueprint_csv_displaced ==
    /\ pc = "csv"
    /\ calculate_camera_distances(stdout)
    /\ pc' = IF err' = "none" THEN "camera" ELSE "raised"
    /\ UNCHANGED level_vars

\* line 272: no argument is passed, the defaults apply
main_generate_blueprint_csv ==
    /\ pc = "csv"
    /\ \E distance_scale \in {DEFAULT_DISTANCE_SCALE}, size_scale \in {DEFAULT_SIZE_SCALE} :
          generate_blueprint_csv(distance_scale, size_scale, stdout)
    /\ pc' = IF err' = "none" THEN "camera" ELSE "raised"
    /\ UNCHANGED level_vars

\* line 275
main_calculate_camera_distances ==
    /\ pc = "camera"
    /\ calculate_camera_distances(stdout)
    /\ pc' = IF err' = "none" THEN "export" ELSE "raised"
    /\ UNCHANGED level_vars

\* line 278
main_export_json_config ==
    /\ pc = "export"
    /\ export_json_config(stdout)
    /\ pc' = IF err' = "none" THEN "banner" ELSE "raised"
    /\ UNCHANGED level_vars

\* lines 280-282
main_complete ==
    /\ pc = "banner"
    /\ stdout' = Append(stdout, "complete")
    /\ pc' = "done"
    /\ UNCHANGED <<catalog, results, report, last_args, csv, csv_args, camera, file,
                   io, err>>
    /\ UNCHANGED level_vars

main_step ==
    \/ main_calculate_scaled_values
    \/ main_generate_blueprint_csv
    \/ main_calculate_camera_distances
    \/ main_export_json_config
    \/ main_complete

GenInit ==
    /\ catalog = PLANETS
    /\ results = <<>>
    /\ report = <<>>
    /\ last_args = <<>>
    /\ csv = [header |-> <<>>, rows |-> <<>>]
    /\ csv_args = <<>>
    /\ camera = <<>>
    /\ file = [state |-> "absent", text |-> <<>>]
    /\ io = <<>>
    /\ err = "none"
    /\ stdout = <<>>
    /\ pc = "idle"

LevelIdle ==
    /\ dir_exists = FALSE
    /\ level = "absent"
    /\ saved = FALSE
    /\ loaded = FALSE
    /\ existed = FALSE
    /\ overwrite_answer = "none"
    /\ calls = <<>>
    /\ ret = "none"
    /\ warned = FALSE
    /\ lpc = "start"

Init == GenInit /\ LevelIdle

Next ==
    \/ call_calculate_scaled_values
    \/ call_generate_blueprint_csv
    \/ call_calculate_camera_distances
    \/ call_export_json_config
    \/ main_title
    \/ main_step

Spec == Init /\ [][Next]_vars

\* main() is synchronous: once entered it runs on until it returns or raises
FairSpec == Spec /\ WF_vars(main_step)

(***************************************************************************)
(* create_space_level.py, one step per editor API call.  The editor is the *)
(* environment: the project it holds when the script starts, the answers   *)
(* to the dialogs and the outcome of each asset call are its choice.       *)
(***************************************************************************)
DialogAnswers == {"YES", "NO"}

\* the project the script is run in
LevelInit ==
    /\ dir_exists \in BOOLEAN
    /\ level \in {"absent", "old"}
    /\ (level = "old" => dir_exists)
    /\ saved = FALSE
    /\ loaded = FALSE
    /\ existed = FALSE
    /\ overwrite_answer = "none"
    /\ calls = <<>>
    /\ ret = "none"
    /\ warned = FALSE
    /\ lpc = "start"

\* lines 30-32: the value make_directory returns (False: nothing was made) is not
\* looked at
check_directory ==
    /\ lpc = "start"
    /\ IF dir_exists
       THEN /\ calls' = Append(calls, "does_directory_exist")
            /\ UNCHANGED dir_exists
       ELSE /\ calls' = calls \o <<"does_directory_exist", "make_directory">>
            /\ dir_exists' \in BOOLEAN
    /\ lpc' = "check_asset"
    /\ UNCHANGED <<level, saved, loaded, existed, overwrite_answer, ret, warned>>
    /\ UNCHANGED gen_vars

\* lines 35-36
check_asset ==
    /\ lpc = "check_asset"
    /\ calls' = Append(calls, "does_asset_exist")
    /\ existed' = (level # "absent")
    /\ lpc' = IF level # "absent" THEN "ask_overwrite" ELSE "create"
    /\ UNCHANGED <<dir_exists, level, saved, loaded, overwrite_answer, ret, warned>>
    /\ UNCHANGED gen_vars

\* ask_overwrite without the early return of lines 43-44: the dialog is shown
\* and the script goes on to create the level whatever the answer
ask_overwrite_ignored ==
    /\ lpc = "ask_overwrite"
    /\ calls' = Append(calls, "show_message:overwrite")
    /\ \E result \in DialogAnswers :
          /\ overwrite_answer' = result
          /\ ret' = ret /\ lpc' = "create"
    /\ UNCHANGED <<dir_exists, level, saved, loaded, existed, warned>>
    /\ UNCHANGED gen_vars

\* lines 37-44
ask_overwrite ==
    /\ lpc = "ask_overwrite"
    /\ calls' = Append(calls, "show_message:overwrite")
    /\ \E result \in DialogAnswers :
          /\ overwrite_answer' = result
          /\ IF result = "NO"
             THEN ret' = "False" /\ lpc' = "returned"
             ELSE ret' = ret /\ lpc' = "create"
    /\ UNCHANGED <<dir_exists, level, saved, loaded, existed, warned>>
    /\ UNCHANGED gen_vars

\* lines 47-58 and 98-104: create_asset returns the new world, returns None, or
\* raises
create_asset ==
    /\ lpc = "create"
    /\ calls' = Append(calls, "create_asset")
    /\ \E outcome \in {"world", "None", "raises"} :
          /\ level' = IF outcome = "world" THEN "new" ELSE level
          /\ IF outcome = "world"
             THEN ret' = ret /\ lpc' = "save"
             ELSE ret' = "False" /\ lpc' = "returned"
    /\ UNCHANGED <<dir_exists, saved, loaded, existed, overwrite_answer, warned>>
    /\ UNCHANGED gen_vars

\* lines 62-63 and 102-104: the value save_asset returns is not looked at
save_asset ==
    /\ lpc = "save"
    /\ calls' = Append(calls, "save_asset")
    /\ \E outcome \in {"True", "False", "raises"} :
          /\ saved' = (outcome = "True")
          /\ IF outcome = "raises"
             THEN ret' = "False" /\ lpc' = "returned"
             ELSE ret' = ret /\ lpc' = "ask_open"
    /\ UNCHANGED <<dir_exists, level, loaded, existed, overwrite_answer, warned>>
    /\ UNCHANGED gen_vars

\* lines 66-72 and 102-104
ask_open ==
    /\ lpc = "ask_open"
    /\ calls' = Append(calls, "show_message:open")
    /\ \E outcome \in DialogAnswers \cup {"raises"} :
          /\ lpc' = CASE outcome = "YES" -> "load"
                      [] outcome = "NO" -> "return_true"
                      [] outcome = "raises" -> "returned"
          /\ ret' = IF outcome = "raises" THEN "False" ELSE ret
    /\ UNCHANGED <<dir_exists, level, saved, loaded, existed, overwrite_answer, warned>>
    /\ UNCHANGED gen_vars

\* lines 73-74 and 102-104
load_map ==
    /\ lpc = "load"
    /\ calls' = Append(calls, "load_map")
    /\ \E outcome \in {"ok", "raises"} :
          /\ loaded' = (outcome = "ok")
          /\ IF outcome = "raises"
             THEN ret' = "False" /\ lpc' = "returned"
             ELSE ret' = ret /\ lpc' = "return_true"
    /\ UNCHANGED <<dir_exists, level, saved, existed, overwrite_answer, warned>>
    /\ UNCHANGED gen_vars

\* lines 76-97
return_true ==
    /\ lpc = "return_true"
    /\ ret' = "True"
    /\ lpc' = "returned"
    /\ UNCHANGED <<dir_exists, level, saved, loaded, existed, overwrite_answer, calls,
                   warned>>
    /\ UNCHANGED gen_vars

\* lines 111-117
report_result ==
    /\ lpc = "returned"
    /\ warned' = (ret = "False")
    /\ lpc' = "end"
    /\ UNCHANGED <<dir_exists, level, saved, loaded, existed, overwrite_answer, calls,
                   ret>>
    /\ UNCHANGED gen_vars

LevelNext ==
    \/ check_directory
    \/ check_asset
    \/ ask_overwrite
    \/ create_asset
    \/ save_asset
    \/ ask_open
    \/ load_map
    \/ return_true
    \/ report_result

LevelSpecInit == GenInit /\ LevelInit

LevelSpec == LevelSpecInit /\ [][LevelNext]_vars

(***************************************************************************)
(* Properties of the scale configuration generator, checked under Spec.    *)
(***************************************************************************)
Defaults == <<DEFAULT_DISTANCE_SCALE, DEFAULT_SIZE_SCALE, DEFAULT_TIME_MULTIPLIER>>

\* the unit the three-way threshold policy picks for h compressed hours
C1_Unit(h) ==
    CASE QGt(h, QInt(24)) -> "days+hours"
      [] ~QGt(h, QInt(24)) /\ QGt(h, QInt(1)) -> "hours+minutes"
      [] ~QGt(h, QInt(1)) -> "minutes+seconds"

C1_Thresholds ==
    report # <<>> =>
        /\ Len(report) = Len(results)
        /\ \A i \in 1..Len(report) :
              /\ report[i].name = results[i].name
              /\ report[i].format = C1_Unit(results[i].orbit_scaled_hours)

\* C1 as stated: the report picks days+hours for h > 24, hours+minutes for
\* 1 < h <= 24 and minutes+seconds for h <= 1, and Earth at the default factors
\* is reported as hours+minutes.
C1_AsStated ==
    /\ C1_Thresholds
    /\ (report # <<>> /\ last_args = Defaults) =>
           \A i \in 1..Len(report) :
               report[i].name = "Earth" => report[i].format = "hours+minutes"

\* C1 amended: the same thresholds, with the breakpoints 24 and 1 on the lower
\* side (h = 24 is hours+minutes, h = 1 is minutes+seconds); Earth at the default
\* factors has a compressed period of 0.8766 hours (3155.8 seconds) and is
\* reported as minutes+seconds.
C1_DisplayFormat ==
    /\ C1_Thresholds
    /\ (report # <<>> /\ last_args = Defaults) =>
           \A i \in 1..Len(report) :
               report[i].name = "Earth" =>
                   /\ report[i].format = "minutes+seconds"
                   /\ QEq(results[i].orbit_scaled_hours, Dec(FALSE, 0, 8766144, 7))

\* a record whose compressed period is exactly 24 hours, shown as hours+minutes
C1_Witness ==
    /\ report # <<>>
    /\ \E i \in 1..Len(report) :
          /\ QEq(results[i].orbit_scaled_hours, QInt(24))
          /\ report[i].format = "hours+minutes"

\* the derived values of catalog entry i for one triple of factors, by the
\* formulas of the specification, with its constants written out
C3_Derived(i, distance_scale, size_scale, time_multiplier) ==
    LET engine_distance ==
            QMul(QMul(QMul(PLANETS[i].semi_major_axis_au, Dec(FALSE, 149597870, 7, 1)),
                      QInt(100000)), distance_scale)
        engine_radius ==
            QMul(QMul(QDiv(PLANETS[i].diameter_km, QInt(2)), QInt(100000)), size_scale)
        compressed_seconds ==
            QDiv(QMul(PLANETS[i].orbital_period_days, QInt(86400)), time_multiplier)
    IN  [ engine_distance |-> engine_distance,
          engine_radius |-> engine_radius,
          distance_equivalent_km |-> QDiv(engine_distance, QInt(100000)),
          radius_equivalent_km |-> QDiv(engine_radius, QInt(100000)),
          compressed_seconds |-> compressed_seconds,
          compressed_minutes |-> QDiv(compressed_seconds, QInt(60)),
          compressed_hours |-> QDiv(QDiv(compressed_seconds, QInt(60)), QInt(60)) ]

C3_Expected ==
    [ds \in DistanceScales |-> [ss \in SizeScales |-> [tm \in TimeMultipliers |->
        [i \in 1..Len(PLANETS) |->
            IF QIsZero(tm) THEN <<>> ELSE C3_Derived(i, ds, ss, tm)]]]]

\* C3: for every catalog entry and every triple of factors the run returned
\* for, the record's engine distance is a * 149597870.7 * 100000.0 *
\* distance_scale, its engine radius (diameter_km / 2) * 100000.0 * size_scale,
\* its compressed seconds orbital_period_days * 86400 / time_multiplier, with
\* minutes = seconds / 60 and hours = minutes / 60, and the equivalent-km fields
\* are the engine values divided by 100000.
C3_DerivedRecord ==
    results # <<>> =>
        /\ Len(results) = Len(PLANETS)
        /\ \A i \in 1..Len(results) :
              LET e == C3_Expected[last_args[1]][last_args[2]][last_args[3]][i]
              IN  /\ results[i].name = PLANETS[i].name
                  /\ results[i].distance_uu = e.engine_distance
                  /\ results[i].radius_uu = e.engine_radius
                  /\ results[i].distance_game_km = e.distance_equivalent_km
                  /\ results[i].radius_game_km = e.radius_equivalent_km
                  /\ results[i].orbit_scaled_seconds = e.compressed_seconds
                  /\ results[i].orbit_scaled_minutes = e.compressed_minutes
                  /\ results[i].orbit_scaled_hours = e.compressed_hours

\* records computed for factors that are all different from the defaults
C3_Witness ==
    /\ results # <<>>
    /\ last_args[1] # DEFAULT_DISTANCE_SCALE
    /\ last_args[2] # DEFAULT_SIZE_SCALE
    /\ last_args[3] # DEFAULT_TIME_MULTIPLIER
    /\ QEq(results[3].radius_uu, QMul(QInt(6371), QInt(10000000)))

\* SemiMajorAxisUU of catalog entry i for a distance scale: the engine distance
\* a * 149597870.7 * 100000.0 * distance_scale, printed with two decimals
C5_SemiMajorAxisUU ==
    [ds \in DistanceScales |-> [i \in 1..Len(PLANETS) |->
        Fmt(QMul(QMul(QMul(PLANETS[i].semi_major_axis_au, Dec(FALSE, 149597870, 7, 1)),
                      QInt(100000)), ds), 2)]]

\* C5: the CSV block has one header line with the 12 column names, in order,
\* then one row per catalog entry in catalog order, each of 12 fields; HasMoons
\* is the literal TRUE or FALSE, and SemiMajorAxisUU is the engine distance
\* computed with the distance scale given to generate_blueprint_csv.
C5_CsvBlock ==
    csv_args # <<>> =>
        /\ csv.header = << "PlanetName", "SemiMajorAxisUU", "Eccentricity",
                           "OrbitalPeriodDays", "InclinationDeg", "LongAscNodeDeg",
                           "ArgPeriapsisDeg", "MeanAnomalyDeg", "DiameterKm",
                           "MassEarthMasses", "RotationPeriodDays", "HasMoons" >>
        /\ Len(csv.rows) = Len(PLANETS)
        /\ \A i \in 1..Len(csv.rows) :
              /\ Len(csv.rows[i]) = 12
              /\ csv.rows[i][1] = PLANETS[i].name
              /\ csv.rows[i][12] \in {"TRUE", "FALSE"}
              /\ (csv.rows[i][12] = "TRUE") = PLANETS[i].has_moons
              /\ csv.rows[i][2] = C5_SemiMajorAxisUU[csv_args[1]][i]

\* a block generated with a distance scale that is not the default: Earth's
\* SemiMajorAxisUU is 1495978871.56 (149597887.16 at the default)
C5_Witness ==
    /\ csv_args # <<>>
    /\ csv_args[1] = Dec(FALSE, 0, 1, 4)
    /\ Len(csv.rows) = 8
    /\ csv.rows[3][2] = [neg |-> FALSE, m |-> <<7156, 9788, 1495>>, k |-> 2]
    /\ csv.rows[1][12] = "FALSE"
    /\ csv.rows[3][12] = "TRUE"

\* C6: the catalog is the same eight entries, Mercury to Neptune, with unique
\* names, in every state of a session; no operation changes it, and the records
\* of a run are a function of the catalog as written and of the three factors.
C6_CatalogConstant ==
    /\ catalog = PLANETS
    /\ [i \in 1..Len(catalog) |-> catalog[i].name] =
           << "Mercury", "Venus", "Earth", "Mars", "Jupiter", "Saturn", "Uranus",
              "Neptune" >>
    /\ results # <<>> =>
           results = scaled_values_cache[last_args[1]][last_args[2]][last_args[3]]

\* every operation has run on the catalog at least once
C6_Witness ==
    /\ catalog = PLANETS
    /\ results # <<>>
    /\ csv_args # <<>>
    /\ camera # <<>>
    /\ file.state = "complete"

\* the document read back from the exported file
C2_Document == json_load(file.text[1])

\* C2: when an export has succeeded, reading the file back gives a document
\* whose planets equal the catalog field by field (names, the eleven numbers
\* and has_moons of each of the eight entries), whose constants are
\* 149597870.7, 100000.0 and 1392700.0, and whose scale_factors are the scale
\* factors the records of the session were computed with.
C2_RoundTrip ==
    (io = <<"ok">> /\ file.state = "complete") =>
        /\ C2_Document.planets = PLANETS
        /\ C2_Document.constants =
               [ au_to_km |-> Dec(FALSE, 149597870, 7, 1),
                 cm_per_km |-> QInt(100000),
                 sun_diameter_km |-> QInt(1392700) ]
        /\ last_args # <<>> =>
               C2_Document.scale_factors =
                   [ distance_scale |-> last_args[1],
                     planet_size_scale |-> last_args[2],
                     default_time_multiplier |-> last_args[3] ]

\* C4: the camera distances are 3 and 5 times the engine radius
\* (diameter_km / 2) * 100000.0 * size_scale for the size scale the session
\* works with, so 3 * max = 5 * min for every entry.
C4_CameraDistances ==
    camera # <<>> =>
        /\ Len(camera) = Len(PLANETS)
        /\ \A i \in 1..Len(camera) :
              /\ camera[i].name = PLANETS[i].name
              /\ QEq(QMul(QInt(3), camera[i].max_distance),
                     QMul(QInt(5), camera[i].min_distance))
              /\ results # <<>> =>
                    /\ QEq(camera[i].min_distance,
                           QMul(QInt(3), C3_Derived(i, last_args[1], last_args[2],
                                                    last_args[3]).engine_radius))
                    /\ QEq(camera[i].max_distance,
                           QMul(QInt(5), C3_Derived(i, last_args[1], last_args[2],
                                                    last_args[3]).engine_radius))

\* what main() has printed when it stands before each of its steps
MainBlocks == << "title", "scale", "csv", "camera", "export_ok", "complete" >>

C7_Printed ==
    /\ pc = "calc" => stdout = SubSeq(MainBlocks, 1, 1)
    /\ pc = "csv" => stdout = SubSeq(MainBlocks, 1, 2)
    /\ pc = "camera" => stdout = SubSeq(MainBlocks, 1, 3)
    /\ pc = "export" => stdout = SubSeq(MainBlocks, 1, 4)
    /\ pc = "banner" => stdout = SubSeq(MainBlocks, 1, 5)
    /\ pc = "done" => stdout = MainBlocks

MainRunning == pc \in {"calc", "csv", "camera", "export", "banner"}

\* C7 as stated: main() prints the scale report, the CSV block, the camera
\* block, the export line and the completion banner, each once and in this
\* order, and every run reaches normal completion: main() never ends in
\* another way.
C7_AsStated == C7_Printed /\ pc # "raised"

\* C7 amended: the same order, each block once; a run ends either in normal
\* completion after all five blocks, or, when writing the file fails, with the
\* OSError raised by the export after the camera block, the export line and
\* the banner not printed.  Every run ends in one of the two ways.
C7_LinearBatch ==
    /\ [](C7_Printed /\ (pc = "raised" =>
                            /\ stdout = SubSeq(MainBlocks, 1, 4)
                            /\ err = "OSError"
                            /\ io # <<"ok">>))
    /\ (MainRunning ~> (pc \in {"done", "raised"}))

\* a run of main() that has completed normally
C7_Witness ==
    /\ pc = "done"
    /\ stdout = MainBlocks
    /\ results # <<>> /\ csv_args # <<>> /\ camera # <<>> /\ file.state = "complete"

C8_Failed == io # <<>> /\ io[1] # "ok"

\* C8: the export fails exactly when opening or writing the file fails; the
\* failure is surfaced as an OSError, the write is attempted once, the export
\* line and the banner are not printed, and the catalog and the reports that
\* were already produced stay as they were.
C8_WriteFailure ==
    /\ [](/\ Len(io) <= 1
          /\ C8_Failed <=> err = "OSError"
          /\ C8_Failed =>
                /\ "export_ok" \notin {stdout[i] : i \in 1..Len(stdout)}
                /\ "complete" \notin {stdout[i] : i \in 1..Len(stdout)}
                /\ file.state # "complete" \/ io[1] = "open_failed"
                /\ catalog = PLANETS
                /\ pc \in {"idle", "raised"})
    /\ [][(io' # <<>> /\ io'[1] # "ok") =>
              /\ UNCHANGED <<catalog, results, report, last_args, csv, csv_args, camera>>
              /\ (io'[1] = "open_failed" => file' = file)]_vars

\* main() ended by the OSError of a write that failed half way, with the three
\* reports it had printed
C8_Witness ==
    /\ pc = "raised"
    /\ err = "OSError"
    /\ io = <<"write_failed">>
    /\ file.state = "partial"
    /\ results # <<>> /\ csv_args # <<>> /\ camera # <<>>

(***************************************************************************)
(* Properties of create_space_level.py, checked under LevelSpec.           *)
(***************************************************************************)
Called(api) == \E i \in 1..Len(calls) : calls[i] = api

CalledBefore(a, b) ==
    \A j \in 1..Len(calls) : calls[j] = b => \E i \in 1..(j - 1) : calls[i] = a

\* C9: an existing level is never overwritten without confirmation.  When the
\* level exists the overwrite dialog is shown before anything is created; on
\* NO the function returns False with no create_asset, save_asset or load_map
\* call and the level as it was; create_asset on an existing level happens only
\* after YES.  When the level does not exist no overwrite dialog is shown.
C9_NoSilentOverwrite ==
    /\ Called("show_message:overwrite") => existed
    /\ (existed /\ Called("create_asset")) =>
           /\ overwrite_answer = "YES"
           /\ CalledBefore("show_message:overwrite", "create_asset")
    /\ overwrite_answer = "NO" =>
           /\ ret = "False"
           /\ ~Called("create_asset") /\ ~Called("save_asset") /\ ~Called("load_map")
           /\ level = "old" /\ ~saved /\ ~loaded
    /\ (Called("does_asset_exist") /\ ~existed) =>
           /\ overwrite_answer = "none"
           /\ (level = "absent" \/ Called("create_asset"))
    /\ level = "new" => (existed => overwrite_answer = "YES")

\* the run on an existing level that was answered NO, after it has ended
C9_Witness ==
    /\ lpc = "end"
    /\ existed
    /\ overwrite_answer = "NO"
    /\ ret = "False"
    /\ level = "old"
    /\ calls = <<"does_directory_exist", "does_asset_exist", "show_message:overwrite">>

\* C10: create_space_level returns True exactly when create_asset produced a
\* level; whenever it returns False no level asset was created or saved, also
\* when save_asset, the open dialog or load_map raises; load_map is called only
\* after create_asset, save_asset and a YES to the open dialog.
C10_ReturnValue ==
    /\ ret = "True" => level = "new"
    /\ ret = "False" => (level # "new" /\ ~saved)
    /\ Called("load_map") =>
           /\ CalledBefore("create_asset", "load_map")
           /\ CalledBefore("save_asset", "load_map")
           /\ CalledBefore("show_message:open", "load_map")

====
